---- MODULE Spec2Model ----
(***************************************************************************)
(* sandstorm/src/buf.rs: the WriteBuf handed to an extension by the        *)
(* database.  A WriteBuf wraps a BytesMut (`inner`) that already holds     *)
(* `meta_len` bytes of database metadata; the extension appends to it with *)
(* write_slice / write_u8 / write_u16 / write_u32 / write_u64, and the     *)
(* database takes the bytes back with freeze.                              *)
(*                                                                         *)
(* A BytesMut is modelled as a record [data, cap]: the bytes it holds      *)
(* (inner.len() = Len(data)) and the size of its allocation               *)
(* (inner.capacity() = cap).  Bytes are numbers in 0..255.                 *)
(*                                                                         *)
(* Integers wider than 16 bits are kept as sequences of 16-bit limbs,      *)
(* least significant limb first (a u16 has 1 limb, a u32 has 2, a u64 has  *)
(* 4), so that a u64 keeps its full width.                                 *)
(***************************************************************************)
EXTENDS Integers, Sequences, FiniteSets, TLC

VARIABLES
    table,      \* WriteBuf.table
    inner,      \* WriteBuf.inner, a BytesMut: [data |-> bytes, cap |-> capacity]
    meta_len,   \* WriteBuf.meta_len
    state,      \* "Writable", "Aborted" (a write panicked) or "Finalized" (consumed by freeze)
    frozen,     \* what freeze returned: <<table, bytes>>, or <<>> before freeze
    init_table, \* history: the table passed to WriteBuf::new
    init_data,  \* history: the bytes of the buffer passed to WriteBuf::new
    written,    \* history: the bytes of every write that returned, in call order
    last,       \* history: the last call made on the WriteBuf
    pair,       \* two WriteBufs given the same calls: <<w1, w2>>
    pair_last,  \* history: the last call made on both WriteBufs of the pair
    r_inner,    \* ReadBuf.inner
    r_init,     \* history: the region passed to ReadBuf::new
    r_last,     \* history: the last call made on the ReadBuf
    messages,   \* MockDB.messages
    calls,      \* history: the debug_log and clear_messages calls made on the MockDB
    m_last      \* history: the last call made on the MockDB

\* The WriteBuf and its history.
write_vars ==
    <<table, inner, meta_len, state, frozen, init_table, init_data, written, last>>

pair_vars == <<pair, pair_last>>

read_vars == <<r_inner, r_init, r_last>>

mock_vars == <<messages, calls, m_last>>

vars == <<write_vars, pair_vars, read_vars, mock_vars>>

\* ------------------------------------------------------------------ bounds

\* Largest allocation the database hands out.
MaxCap == 9

\* Largest number of metadata bytes the database writes before WriteBuf::new.
MaxMeta == 1

\* Longest slice passed to write_slice.
MaxSlice == 2

\* Longest region wrapped in a ReadBuf.
MaxRegion == 4

\* Bytes of the regions wrapped in a ReadBuf.
RegionBytes == {1, 2, 3}

\* Largest number of debug_log and clear_messages calls made on a MockDB.
MaxCalls == 4

\* Messages passed to debug_log.
Messages == {"a", "b"}

\* Table identifiers, metadata bytes and slice bytes to draw from.
Tables == {1, 2}

MetaBytes == {7, 9}

SliceBytes == {1}

\* Values for the typed writes, as 16-bit limbs, least significant first.
\* <<258>> is 258; <<770, 1284>> is 1284 * 65536 + 770 = 84148994;
\* <<770, 1284, 2, 0>> is 2 * 2^32 + 84148994 = 8674083586.
U8Values == {<<200>>}

U16Values == {<<258>>}

U32Values == {<<770, 1284>>}

U64Values == {<<770, 1284, 2, 0>>}

\* A wider sample of each width for the encoding check: zero, the largest
\* value, values whose bytes all differ, and values with a single bit set.
U8Wide == {<<0>>, <<1>>, <<200>>, <<255>>}

U16Wide == {<<0>>, <<1>>, <<258>>, <<32768>>, <<65280>>, <<65535>>}

U32Wide ==
    {<<0, 0>>, <<770, 1284>>, <<0, 32768>>, <<65535, 65535>>, <<1, 0>>, <<4660, 22136>>}

U64Wide ==
    {<<0, 0, 0, 0>>, <<770, 1284, 2, 0>>, <<0, 0, 0, 32768>>,
     <<65535, 65535, 65535, 65535>>, <<1, 0, 0, 0>>, <<4660, 22136, 39612, 57072>>}

\* ----------------------------------------------------------------- helpers

\* All sequences over S of length 0..n.
SeqsUpTo(S, n) == UNION {[1..k -> S] : k \in 0..n}

\* s is a prefix of t.
IsPrefix(s, t) == Len(s) <= Len(t) /\ SubSeq(t, 1, Len(s)) = s

Reverse(s) == [i \in 1..Len(s) |-> s[Len(s) + 1 - i]]

\* ------------------------------------------------- BytesMut (bytes crate)

\* BufMut::remaining_mut of a BytesMut: capacity() - len().
remaining_mut(b) == b.cap - Len(b.data)

\* Mutant: the slice is copied to the start of the buffer, in front of what
\* it holds.
put_slice_at_start(b, src) == [b EXCEPT !.data = src \o @]

\* Mutant: the write position is rewound to the end of the metadata, so a
\* write replaces what the extension wrote before.
put_slice_rewound(b, src) == [b EXCEPT !.data = SubSeq(@, 1, meta_len) \o src]

\* Mutant: the allocation is grown by the length of every slice written.
put_slice_growing(b, src) ==
    [b EXCEPT !.data = @ \o src, !.cap = @ + Len(src)]

\* BufMut::put_slice of a BytesMut, once its assertion has passed: the
\* slice is copied to the end of the data; the allocation is not grown.
put_slice(b, src) == [b EXCEPT !.data = @ \o src]

\* Mutant: the assertion is off by one, a slice that fits exactly is refused.
has_room_strict(b, n) == remaining_mut(b) > n

\* Mutant: no assertion, the buffer grows to take whatever is written.
has_room_unchecked(b, n) == TRUE

\* Mutant: the assertion asks for one free byte, whatever the width written.
has_room_for_one(b, n) == n = 0 \/ remaining_mut(b) >= 1

\* The assertion of put_slice / put_u8: assert!(remaining_mut() >= len).
has_room(b, n) == remaining_mut(b) >= n

\* Mutant: only the bytes the extension wrote are handed back.
bytes_freeze_written(b) == SubSeq(b.data, meta_len + 1, Len(b.data))

\* BytesMut::freeze: the same bytes, immutable.
bytes_freeze(b) == b.data

\* ------------------------------------------------------ integer encodings

\* n as u8: the low byte of a limb sequence.
LowByte(v) == v[1] % 256

\* v >> 8 on a limb sequence (<<>> \o makes the result a plain sequence,
\* which is evaluated once).
Shr8(v) ==
    <<>> \o [j \in 1..Len(v) |->
        (v[j] \div 256) + (IF j < Len(v) THEN (v[j + 1] % 256) * 256 ELSE 0)]

\* LittleEndian::write_uN(&mut buf, n): w bytes, least significant first.
RECURSIVE write_le(_, _)
write_le(v, w) ==
    IF w = 0 THEN <<>> ELSE <<LowByte(v)>> \o write_le(Shr8(v), w - 1)

\* BigEndian::write_uN(&mut buf, n): w bytes, most significant first.
RECURSIVE write_be(_, _)
write_be(v, w) ==
    IF w = 0 THEN <<>> ELSE write_be(Shr8(v), w - 1) \o <<LowByte(v)>>

\* Mutant: the arms of the match are swapped.
encode_swapped(v, w, le) == IF le THEN write_be(v, w) ELSE write_le(v, w)

\* The match on `le` in write_u16 / write_u32 / write_u64.
encode(v, w, le) == IF le THEN write_le(v, w) ELSE write_be(v, w)

\* ---------------------------------------------------------------- WriteBuf

\* The buffers the database passes to WriteBuf::new: an allocation of cap
\* bytes in which it has written at most MaxMeta bytes of metadata.
Buffers ==
    {[data |-> d, cap |-> c] :
        c \in 0..MaxCap, d \in SeqsUpTo(MetaBytes, MaxMeta)} \
    {b \in [data : SeqsUpTo(MetaBytes, MaxMeta), cap : 0..MaxCap] :
        Len(b.data) > b.cap}

\* Mutant: the metadata already in the buffer is not counted.
new_no_meta(t, buffer) == [table |-> t, inner |-> buffer, meta_len |-> 0]

\* WriteBuf::new(table, buffer)
new(t, buffer) ==
    [table |-> t, inner |-> buffer, meta_len |-> Len(buffer.data)]

\* Mutant: len() counts the metadata too.
len_with_meta == Len(inner.data)

\* WriteBuf::len()
len == Len(inner.data) - meta_len

\* WriteBuf::capacity()
capacity == inner.cap - meta_len

\* The record in `last` of one call: the method, the bytes it was to append,
\* the integer and byte order of a typed write, what it returned, and the
\* BytesMut as it was when the call was made.
Call(op, data, value, le, ret) ==
    [op |-> op, data |-> data, value |-> value, le |-> le, ret |-> ret,
     before |-> inner]

\* The objects a specification does not exercise: a pair of empty WriteBufs,
\* a ReadBuf over an empty region, a MockDB with no messages.
PairIdle ==
    LET w == [buf |-> new(1, [data |-> <<>>, cap |-> 0]), state |-> "Writable"]
    IN  /\ pair = <<w, w>>
        /\ pair_last = [op |-> "new", data |-> <<>>, rets |-> <<0, 0>>]

ReadIdle ==
    /\ r_inner = <<>>
    /\ r_init = <<>>
    /\ r_last = [op |-> "new", ret |-> 0]

\* MockDB::new()
mock_new == <<>>

MockIdle ==
    /\ messages = mock_new
    /\ calls = <<>>
    /\ m_last = [op |-> "new", arg |-> <<>>, passed |-> TRUE, before |-> <<>>]

Init ==
    /\ PairIdle
    /\ ReadIdle
    /\ MockIdle
    /\ \E t \in Tables, buffer \in Buffers :
        LET w == new(t, buffer) IN
            /\ table = w.table
            /\ inner = w.inner
            /\ meta_len = w.meta_len
            /\ state = "Writable"
            /\ frozen = <<>>
            /\ init_table = t
            /\ init_data = buffer.data
            /\ written = <<>>
            /\ last = [op |-> "new", data |-> <<>>, value |-> <<>>, le |-> FALSE,
                       ret |-> 0, before |-> buffer]

\* Mutant: the bytes are copied one at a time, and the panic comes when the
\* buffer is full: the start of an encoding that does not fit is appended.
Put_partial(op, bytes, value, le) ==
    /\ state = "Writable"
    /\ IF has_room(inner, Len(bytes))
       THEN /\ inner' = put_slice(inner, bytes)
            /\ written' = written \o bytes
            /\ state' = state
       ELSE /\ state' = "Aborted"
            /\ inner' = put_slice(inner, SubSeq(bytes, 1, remaining_mut(inner)))
            /\ written' = written
    /\ last' = Call(op, bytes, value, le, 0)
    /\ UNCHANGED <<table, meta_len, frozen, init_table, init_data>>

\* self.inner.put_slice(bytes) / put_u8 / put_uN: panics when the bytes do
\* not fit (put_u8 asserts len < cap, which is has_room for one byte), and
\* otherwise appends them.  A panic ends the extension's invocation.
Put(op, bytes, value, le) ==
    /\ state = "Writable"
    /\ IF has_room(inner, Len(bytes))
       THEN /\ inner' = put_slice(inner, bytes)
            /\ written' = written \o bytes
            /\ state' = state
       ELSE /\ state' = "Aborted"
            /\ UNCHANGED <<inner, written>>
    /\ last' = Call(op, bytes, value, le, 0)
    /\ UNCHANGED <<table, meta_len, frozen, init_table, init_data>>

GetLen ==
    /\ state = "Writable"
    /\ last' = Call("len", <<>>, <<>>, FALSE, len)
    /\ UNCHANGED <<table, inner, meta_len, state, frozen, init_table, init_data, written>>

GetCapacity ==
    /\ state = "Writable"
    /\ last' = Call("capacity", <<>>, <<>>, FALSE, capacity)
    /\ UNCHANGED <<table, inner, meta_len, state, frozen, init_table, init_data, written>>

\* WriteBuf::write_slice(data)
write_slice ==
    \E data \in SeqsUpTo(SliceBytes, MaxSlice) : Put("write_slice", data, <<>>, FALSE)

\* WriteBuf::write_u8(data), for data drawn from Vals
write_u8_of(Vals) == \E v \in Vals : Put("write_u8", <<v[1]>>, v, FALSE)

\* WriteBuf::write_u16(data, le), for data drawn from Vals
write_u16_of(Vals) ==
    \E v \in Vals, le \in BOOLEAN : Put("write_u16", encode(v, 2, le), v, le)

\* WriteBuf::write_u32(data, le), for data drawn from Vals
write_u32_of(Vals) ==
    \E v \in Vals, le \in BOOLEAN : Put("write_u32", encode(v, 4, le), v, le)

\* WriteBuf::write_u64(data, le), for data drawn from Vals
write_u64_of(Vals) ==
    \E v \in Vals, le \in BOOLEAN : Put("write_u64", encode(v, 8, le), v, le)

write_u8 == write_u8_of(U8Values)

write_u16 == write_u16_of(U16Values)

write_u32 == write_u32_of(U32Values)

write_u64 == write_u64_of(U64Values)

\* Mutant: freeze borrows the WriteBuf instead of consuming it, so the
\* WriteBuf stays usable.
freeze_by_ref ==
    /\ state = "Writable"
    /\ frozen' = <<table, bytes_freeze(inner)>>
    /\ last' = Call("freeze", <<>>, <<>>, FALSE, 0)
    /\ UNCHANGED <<table, inner, meta_len, state, init_table, init_data, written>>

\* Mutant: the database freezes the WriteBuf of an invocation that aborted.
host_finalizes_always == TRUE

\* The caller of freeze, the database: it finalizes a WriteBuf only after
\* the extension's invocation completed without aborting.
host_finalizes == state # "Aborted"

\* WriteBuf::freeze(self): takes the WriteBuf by value, so it can be called
\* once, on a WriteBuf that still exists; a WriteBuf whose invocation
\* panicked is dropped by the unwinding and is never frozen.
freeze ==
    /\ state # "Finalized"
    /\ host_finalizes
    /\ frozen' = <<table, bytes_freeze(inner)>>
    /\ state' = "Finalized"
    /\ last' = Call("freeze", <<>>, <<>>, FALSE, 0)
    /\ UNCHANGED <<table, inner, meta_len, init_table, init_data, written>>

\* A call on the WriteBuf leaves the other objects alone.
WriteOnly == UNCHANGED <<pair_vars, read_vars, mock_vars>>

Next ==
    \/ GetLen /\ WriteOnly
    \/ GetCapacity /\ WriteOnly
    \/ write_slice /\ WriteOnly
    \/ write_u8 /\ WriteOnly
    \/ write_u16 /\ WriteOnly
    \/ write_u32 /\ WriteOnly
    \/ write_u64 /\ WriteOnly
    \/ freeze /\ WriteOnly

Spec == Init /\ [][Next]_vars

\* The first write on a fresh WriteBuf, with the integer drawn from the
\* wider samples: the specification the encodings are checked under.
FirstCall == last.op = "new"

EncodeU8 == FirstCall /\ write_u8_of(U8Wide)

EncodeU16 == FirstCall /\ write_u16_of(U16Wide)

EncodeU32 == FirstCall /\ write_u32_of(U32Wide)

EncodeU64 == FirstCall /\ write_u64_of(U64Wide)

NextEncode ==
    \/ EncodeU8 /\ WriteOnly
    \/ EncodeU16 /\ WriteOnly
    \/ EncodeU32 /\ WriteOnly
    \/ EncodeU64 /\ WriteOnly

SpecEncode == Init /\ [][NextEncode]_vars

\* ------------------------------------------------------ a pair of WriteBufs

\* A fresh WriteBuf over an empty allocation, for the specifications that
\* do not exercise the WriteBuf.
WriteIdle ==
    LET buffer == [data |-> <<>>, cap |-> 0]
        w == new(1, buffer)
    IN  /\ table = w.table
        /\ inner = w.inner
        /\ meta_len = w.meta_len
        /\ state = "Writable"
        /\ frozen = <<>>
        /\ init_table = 1
        /\ init_data = buffer.data
        /\ written = <<>>
        /\ last = [op |-> "new", data |-> <<>>, value |-> <<>>, le |-> FALSE,
                   ret |-> 0, before |-> buffer]

\* WriteBuf::len() of the WriteBuf w
len_of(w) == Len(w.inner.data) - w.meta_len

\* Mutant: capacity() reports the whole allocation, metadata included.
capacity_of_total(w) == w.inner.cap

\* WriteBuf::capacity() of the WriteBuf w
capacity_of(w) == w.inner.cap - w.meta_len

\* self.inner.put_slice(bytes) / put_u8 / put_uN on a WriteBuf of the pair:
\* panics when the bytes do not fit, and otherwise appends them.
put_of(e, bytes) ==
    IF has_room(e.buf.inner, Len(bytes))
    THEN [e EXCEPT !.buf.inner = put_slice(@, bytes)]
    ELSE [e EXCEPT !.state = "Aborted"]

\* Two WriteBufs over buffers whose metadata differ and which leave the
\* extension the same number of bytes.
InitPair ==
    /\ WriteIdle
    /\ ReadIdle
    /\ MockIdle
    /\ \E b1 \in Buffers, b2 \in Buffers :
           /\ b1.data # b2.data
           /\ b1.cap - Len(b1.data) = b2.cap - Len(b2.data)
           /\ pair = <<[buf |-> new(1, b1), state |-> "Writable"],
                       [buf |-> new(1, b2), state |-> "Writable"]>>
           /\ pair_last = [op |-> "new", data |-> <<>>, rets |-> <<0, 0>>]

\* The same write made on both WriteBufs.
PairPut(op, bytes) ==
    /\ pair[1].state = "Writable"
    /\ pair[2].state = "Writable"
    /\ pair' = <<put_of(pair[1], bytes), put_of(pair[2], bytes)>>
    /\ pair_last' = [op |-> op, data |-> bytes, rets |-> <<0, 0>>]
    /\ UNCHANGED <<write_vars, read_vars, mock_vars>>

\* len() or capacity() called on both WriteBufs.
PairGet(op, r1, r2) ==
    /\ pair[1].state = "Writable"
    /\ pair[2].state = "Writable"
    /\ pair_last' = [op |-> op, data |-> <<>>, rets |-> <<r1, r2>>]
    /\ UNCHANGED pair
    /\ UNCHANGED <<write_vars, read_vars, mock_vars>>

PairLen == PairGet("len", len_of(pair[1].buf), len_of(pair[2].buf))

PairCapacity ==
    PairGet("capacity", capacity_of(pair[1].buf), capacity_of(pair[2].buf))

PairWriteSlice ==
    \E data \in SeqsUpTo(SliceBytes, MaxSlice) : PairPut("write_slice", data)

PairWriteU8 == \E v \in U8Values : PairPut("write_u8", <<v[1]>>)

PairWriteU16 ==
    \E v \in U16Values, le \in BOOLEAN : PairPut("write_u16", encode(v, 2, le))

PairWriteU32 ==
    \E v \in U32Values, le \in BOOLEAN : PairPut("write_u32", encode(v, 4, le))

PairWriteU64 ==
    \E v \in U64Values, le \in BOOLEAN : PairPut("write_u64", encode(v, 8, le))

NextPair ==
    \/ PairLen
    \/ PairCapacity
    \/ PairWriteSlice
    \/ PairWriteU8
    \/ PairWriteU16
    \/ PairWriteU32
    \/ PairWriteU64

SpecPair == InitPair /\ [][NextPair]_vars

\* ----------------------------------------------------------------- ReadBuf

\* ReadBuf::new(buffer)
read_new(buffer) == buffer

\* ReadBuf::len(): self.inner.len()
read_len == Len(r_inner)

\* Mutant: is_empty answers for a region of at most one byte.
read_is_empty_short == Len(r_inner) <= 1

\* ReadBuf::is_empty(): self.inner.is_empty()
read_is_empty == Len(r_inner) = 0

\* ReadBuf::read(): self.inner.as_ref()
read_read == r_inner

InitRead ==
    /\ WriteIdle
    /\ PairIdle
    /\ MockIdle
    /\ \E region \in SeqsUpTo(RegionBytes, MaxRegion) :
           /\ r_inner = read_new(region)
           /\ r_init = region
           /\ r_last = [op |-> "new", ret |-> 0]

\* A call on the ReadBuf: all three methods take &self.
ReadCall(op, ret) ==
    /\ r_last' = [op |-> op, ret |-> ret]
    /\ UNCHANGED <<r_inner, r_init>>
    /\ UNCHANGED <<write_vars, pair_vars, mock_vars>>

ReadLen == ReadCall("len", read_len)

ReadIsEmpty == ReadCall("is_empty", read_is_empty)

ReadRead == ReadCall("read", read_read)

NextRead ==
    \/ ReadLen
    \/ ReadIsEmpty
    \/ ReadRead

SpecRead == InitRead /\ [][NextRead]_vars

\* ------------------------------------------------------------------ MockDB

\* Mutant: a message that is already recorded is not recorded again.
mock_debug_log_once(msgs, message) ==
    IF \E i \in 1..Len(msgs) : msgs[i] = message THEN msgs ELSE Append(msgs, message)

\* MockDB::debug_log(message): messages.push(String::from(message))
mock_debug_log(msgs, message) == Append(msgs, message)

\* MockDB::clear_messages(): messages.clear()
mock_clear_messages(msgs) == <<>>

\* MockDB::assert_messages(expected): assert_eq!(expected, found.as_slice())
mock_assert_messages(msgs, expected) == expected = msgs

InitMock ==
    /\ WriteIdle
    /\ PairIdle
    /\ ReadIdle
    /\ MockIdle

\* The record in m_last of one call on the MockDB.
MockCall(op, arg, passed) ==
    [op |-> op, arg |-> arg, passed |-> passed, before |-> messages]

DebugLog ==
    /\ Len(calls) < MaxCalls
    /\ \E message \in Messages :
           /\ messages' = mock_debug_log(messages, message)
           /\ calls' = Append(calls, [op |-> "debug_log", message |-> message])
           /\ m_last' = MockCall("debug_log", <<message>>, TRUE)
    /\ UNCHANGED <<write_vars, pair_vars, read_vars>>

ClearMessages ==
    /\ Len(calls) < MaxCalls
    /\ messages' = mock_clear_messages(messages)
    /\ calls' = Append(calls, [op |-> "clear_messages", message |-> ""])
    /\ m_last' = MockCall("clear_messages", <<>>, TRUE)
    /\ UNCHANGED <<write_vars, pair_vars, read_vars>>

AssertMessages ==
    /\ \E expected \in SeqsUpTo(Messages, MaxCalls) :
           m_last' = MockCall("assert_messages", expected,
                              mock_assert_messages(messages, expected))
    /\ UNCHANGED <<messages, calls>>
    /\ UNCHANGED <<write_vars, pair_vars, read_vars>>

NextMock ==
    \/ DebugLog
    \/ ClearMessages
    \/ AssertMessages

SpecMock == InitMock /\ [][NextMock]_vars

\* ------------------------------------------------------------------ claims

\* What len() and capacity() were when the last call was made, and the
\* bytes then free: capacity() - len().
LenBefore == Len(last.before.data) - meta_len

CapacityBefore == last.before.cap - meta_len

FreeBefore == CapacityBefore - LenBefore

\* The bytes the extension sees as written: inner[meta_len..].
Visible(data) == SubSeq(data, meta_len + 1, Len(data))

WriteOps == {"write_slice", "write_u8", "write_u16", "write_u32", "write_u64"}

ExtensionOps == WriteOps \cup {"len", "capacity"}

\* C1: write_slice(data) with more bytes than capacity() - len() leaves is
\* fatal: the call aborts the invocation, and once the invocation has
\* aborted no write, len or capacity call is made on the WriteBuf.
C1_OverflowIsFatal ==
    [][/\ (last'.op = "write_slice" /\ Len(last'.data) > capacity - len
              => state' = "Aborted")
       /\ (state = "Aborted" => last'.op \notin ExtensionOps)]_vars

\* A write_slice that did not fit, made after earlier writes had succeeded.
C1_Witness ==
    /\ state = "Aborted"
    /\ last.op = "write_slice"
    /\ Len(last.data) > FreeBefore
    /\ LenBefore > 0

\* C2: write_slice(data) with k = |data| <= capacity() - len() does not
\* abort, len() grows by exactly k, and inner[meta_len..] afterwards is what
\* it was before followed by data.
C2_WriteSliceAppends ==
    (last.op = "write_slice" /\ Len(last.data) <= FreeBefore) =>
        /\ state # "Aborted"
        /\ len = LenBefore + Len(last.data)
        /\ Visible(inner.data) = Visible(last.before.data) \o last.data

\* A non-empty slice that fits exactly, written after earlier writes.
C2_Witness ==
    /\ last.op = "write_slice"
    /\ Len(last.data) = FreeBefore
    /\ Len(last.data) > 0
    /\ LenBefore > 0
    /\ state = "Writable"

\* C3: in every reachable state the first meta_len bytes of inner are the
\* bytes the database had written before WriteBuf::new, and meta_len is
\* the number of those bytes.
C3_HostPrefixIntact ==
    /\ meta_len = Len(init_data)
    /\ Len(inner.data) >= meta_len
    /\ SubSeq(inner.data, 1, meta_len) = init_data

\* A WriteBuf with metadata, written to and then overflowed.
C3_Witness ==
    /\ state = "Aborted"
    /\ meta_len > 0
    /\ Len(written) > 1

\* C4: freeze returns the table passed to new and the metadata followed by
\* the bytes of every successful write, in call order.
C4_FreezeReturnsAll ==
    state = "Finalized" => frozen = <<init_table, init_data \o written>>

\* A freeze after several writes on a WriteBuf with metadata.
C4_Witness ==
    /\ state = "Finalized"
    /\ meta_len > 0
    /\ Len(written) > 2
    /\ frozen[1] = 2

\* C5: right after WriteBuf::new over a buffer of length m and capacity c,
\* len() is 0 and capacity() is c - m.
C5_FreshLenAndCapacity ==
    last.op = "new" =>
        /\ len = 0
        /\ capacity = last.before.cap - Len(last.before.data)

\* A fresh WriteBuf over a full buffer (m = c > 0).
C5_Witness ==
    /\ last.op = "new"
    /\ Len(last.before.data) = last.before.cap
    /\ Len(last.before.data) > 0

TypedOps == {"write_u8", "write_u16", "write_u32", "write_u64"}

\* The number of bytes a typed write encodes its integer in.
Width(op) ==
    CASE op = "write_u8" -> 1
      [] op = "write_u16" -> 2
      [] op = "write_u32" -> 4
      [] op = "write_u64" -> 8

\* The bytes the last call added to inner.
Appended == SubSeq(inner.data, Len(last.before.data) + 1, Len(inner.data))

\* floor(v / 256^i) mod 256, for v given as 16-bit limbs.
ByteAt(v, i) == (v[(i \div 2) + 1] \div (IF i % 2 = 0 THEN 1 ELSE 256)) % 256

\* C6: a typed write of width w that has room appends exactly w bytes: with
\* le = TRUE byte i is floor(v / 256^i) mod 256, with le = FALSE the same
\* bytes in reverse order; write_u8(v) appends the byte v.  258 gives
\* [2,1] / [1,2], 84148994 gives [2,3,4,5] / [5,4,3,2] and 8674083586 gives
\* [2,3,4,5,2,0,0,0] / [0,0,0,2,5,4,3,2].
C6_TypedEncodings ==
    (last.op \in TypedOps /\ state # "Aborted") =>
        LET w == Width(last.op)
            v == last.value
            lsb_first == [i \in 1..w |-> ByteAt(v, i - 1)]
        IN  /\ Len(Appended) = w
            /\ last.op = "write_u8" => Appended = <<v[1]>>
            /\ (last.op # "write_u8" /\ last.le) => Appended = lsb_first
            /\ (last.op # "write_u8" /\ ~last.le) => Appended = Reverse(lsb_first)
            /\ (last.op = "write_u16" /\ v = <<258>>) =>
                   Appended = IF last.le THEN <<2, 1>> ELSE <<1, 2>>
            /\ (last.op = "write_u32" /\ v = <<770, 1284>>) =>
                   Appended = IF last.le THEN <<2, 3, 4, 5>> ELSE <<5, 4, 3, 2>>
            /\ (last.op = "write_u64" /\ v = <<770, 1284, 2, 0>>) =>
                   Appended = IF last.le THEN <<2, 3, 4, 5, 2, 0, 0, 0>>
                                         ELSE <<0, 0, 0, 2, 5, 4, 3, 2>>

\* A big-endian write_u64 of a value whose eight bytes all differ, behind
\* metadata.
C6_Witness ==
    /\ last.op = "write_u64"
    /\ ~last.le
    /\ last.value = <<4660, 22136, 39612, 57072>>
    /\ state = "Writable"
    /\ meta_len > 0

\* C7: a typed write aborts exactly when its width (1 / 2 / 4 / 8 bytes)
\* exceeds capacity() - len(), for either byte order; that is the condition
\* under which write_slice of a slice of that length aborts.
C7_TypedOverflowPolicy ==
    /\ last.op \in TypedOps =>
           (state = "Aborted" <=> Width(last.op) > FreeBefore)
    /\ last.op = "write_slice" =>
           (state = "Aborted" <=> Len(last.data) > FreeBefore)

\* A big-endian write_u32 that aborted with some, but fewer than 4, bytes
\* free.
C7_Witness ==
    /\ last.op = "write_u32"
    /\ ~last.le
    /\ state = "Aborted"
    /\ FreeBefore >= 1
    /\ LenBefore > 0

\* C8: a WriteBuf starts Writable, becomes Finalized only through freeze,
\* and after freeze no call is made on it and what freeze returned never
\* changes: every step is taken before freeze.
C8_Lifecycle ==
    [][/\ (last.op = "new" => state = "Writable")
       /\ (state' = "Finalized" => state = "Writable" /\ last'.op = "freeze")
       /\ state # "Finalized"
       /\ frozen = <<>>]_vars

\* A WriteBuf frozen after the extension wrote to it.
C8_Witness ==
    /\ state = "Finalized"
    /\ frozen # <<>>
    /\ Len(written) > 0

\* C9: meta_len <= inner.len() <= inner.capacity() in every reachable
\* state, so the subtractions in len() and capacity() do not underflow and
\* 0 <= len() <= capacity().
C9_LengthsOrdered ==
    /\ meta_len <= Len(inner.data)
    /\ Len(inner.data) <= inner.cap
    /\ 0 <= len
    /\ len <= capacity

\* A WriteBuf with metadata that the extension has filled completely.
C9_Witness ==
    /\ meta_len > 0
    /\ len > 0
    /\ len = capacity

\* C10: in every step the contents of inner before the step are a prefix of
\* its contents after it, and len() does not decrease.
C10_AppendOnly ==
    [][/\ IsPrefix(inner.data, inner'.data)
       /\ len' >= len]_vars

\* A write that added bytes behind bytes the extension had written before.
C10_Witness ==
    /\ last.op \in WriteOps
    /\ state = "Writable"
    /\ LenBefore > 0
    /\ Len(Appended) > 0

\* C11: write_slice(&[]) is a no-op in every Writable state, a full buffer
\* included: it does not abort and leaves len(), capacity() and the buffer
\* contents as they were.
C11_EmptyWriteIsNoOp ==
    (last.op = "write_slice" /\ last.data = <<>>) =>
        /\ state = "Writable"
        /\ inner = last.before
        /\ len = LenBefore
        /\ capacity = CapacityBefore
        /\ written = Visible(last.before.data)

\* An empty slice written to a buffer the extension had filled completely.
C11_Witness ==
    /\ last.op = "write_slice"
    /\ last.data = <<>>
    /\ FreeBefore = 0
    /\ LenBefore > 0
    /\ meta_len > 0

\* C12: after any sequence of len / is_empty / read calls on
\* ReadBuf::new(r), len() is |r|, read() is r byte for byte, is_empty() is
\* (len() = 0), and the wrapped region is still r.
C12_ReadBufIsTheRegion ==
    /\ r_inner = r_init
    /\ r_last.op = "len" => r_last.ret = Len(r_init)
    /\ r_last.op = "read" => r_last.ret = r_init
    /\ r_last.op = "is_empty" => r_last.ret = (read_len = 0)
    /\ r_last.op = "is_empty" => r_last.ret = (r_init = <<>>)

\* is_empty called on a ReadBuf over a region of one byte.
C12_Witness ==
    /\ r_last.op = "is_empty"
    /\ Len(r_init) = 1
    /\ r_last.ret = FALSE

\* The largest k such that a put of k bytes into b passes the assertion.
MaxWritable(b) ==
    CHOOSE k \in 0..b.cap : has_room(b, k) /\ ~has_room(b, k + 1)

\* C13 as stated: in every reachable Writable state capacity() is the
\* largest k such that a write of k bytes completes without aborting.
C13_CapacityIsRemaining ==
    state = "Writable" => capacity = MaxWritable(inner)

\* C13, amended: in every reachable Writable state capacity() - len() is
\* the largest k such that a write of k bytes completes without aborting (a
\* write completed exactly when its bytes were at most that many);
\* capacity() is that k only while len() = 0.
C13_FreeIsRemaining ==
    /\ state = "Writable" =>
           /\ capacity - len = MaxWritable(inner)
           /\ (capacity = MaxWritable(inner)) <=> (len = 0)
    /\ last.op \in WriteOps =>
           (state = "Writable" <=> Len(last.data) <= CapacityBefore - LenBefore)

\* A Writable WriteBuf with metadata, bytes written and bytes still free.
C13_Witness ==
    /\ state = "Writable"
    /\ last.op \in WriteOps
    /\ meta_len > 0
    /\ len > 0
    /\ capacity - len > 0

\* C14: once a write on a WriteBuf has aborted the invocation, freeze is
\* never performed on it: a region is handed back only when every write of
\* the invocation succeeded.
C14_NoFreezeAfterAbort ==
    [][/\ state = "Aborted" => (last'.op # "freeze" /\ frozen' = <<>>)
       /\ frozen' # <<>> => state # "Aborted"]_vars

\* An invocation that aborted after some of its writes had succeeded.
C14_Witness ==
    /\ state = "Aborted"
    /\ Len(written) > 0
    /\ frozen = <<>>

\* C15: not stated in the model.  ReadBuf::new, WriteBuf::new and
\* WriteBuf::freeze are `pub unsafe fn`; who is able to call them is settled
\* when an extension is compiled, not by any state or step of the program.

\* C16: two WriteBufs whose metadata differ in content and in length but
\* which leave the extension the same number of bytes, given the same calls,
\* return the same len() and capacity() at every step and abort on the same
\* writes.
C16_PrefixNotObservable ==
    /\ pair[1].state = pair[2].state
    /\ len_of(pair[1].buf) = len_of(pair[2].buf)
    /\ capacity_of(pair[1].buf) = capacity_of(pair[2].buf)
    /\ pair_last.rets[1] = pair_last.rets[2]

\* A write_u32 that aborted on both WriteBufs, which hold metadata of
\* different lengths and bytes the extension wrote before.
C16_Witness ==
    /\ pair_last.op = "write_u32"
    /\ pair[1].state = "Aborted"
    /\ pair[1].buf.meta_len # pair[2].buf.meta_len
    /\ len_of(pair[1].buf) > 0
    /\ capacity_of(pair[1].buf) - len_of(pair[1].buf) > 0

\* C17: capacity() is fixed at construction: no write, successful or
\* aborting, changes it; it is the total capacity of inner minus meta_len in
\* every reachable state, and no call grows or reallocates inner.
C17_CapacityFixed ==
    /\ inner.cap = last.before.cap
    /\ capacity = CapacityBefore
    /\ capacity = inner.cap - Len(init_data)

\* A WriteBuf with metadata after successful writes and an aborting one.
C17_Witness ==
    /\ state = "Aborted"
    /\ last.op \in WriteOps
    /\ meta_len > 0
    /\ Len(written) > 2

\* C18: a write that aborts appends no byte of its encoding: the buffer
\* contents, len(), capacity(), meta_len and table are what they were before
\* the call.
C18_AbortWritesNothing ==
    state = "Aborted" =>
        /\ inner = last.before
        /\ len = LenBefore
        /\ capacity = CapacityBefore
        /\ Visible(inner.data) = written
        /\ meta_len = Len(init_data)
        /\ table = init_table

\* A write_u64 that aborted with some, but fewer than 8, bytes free.
C18_Witness ==
    /\ state = "Aborted"
    /\ last.op = "write_u64"
    /\ FreeBefore >= 1
    /\ LenBefore > 0

\* The messages passed to debug_log since the most recent clear_messages
\* of the call history h, in call order.
RECURSIVE SinceClear(_)
SinceClear(h) ==
    IF h = <<>> THEN <<>>
    ELSE LET c == h[Len(h)] IN
         IF c.op = "clear_messages" THEN <<>>
         ELSE Append(SinceClear(SubSeq(h, 1, Len(h) - 1)), c.message)

\* C19: after any sequence of debug_log and clear_messages calls the
\* recorded messages are exactly those passed to debug_log since the most
\* recent clear_messages (or since new), in call order, duplicates kept;
\* assert_messages passes exactly when its argument is that sequence, and
\* leaves the recorded messages unchanged.
C19_MockRecordsMessages ==
    /\ messages = SinceClear(calls)
    /\ m_last.op = "assert_messages" =>
           /\ m_last.passed <=> (m_last.arg = SinceClear(calls))
           /\ messages = m_last.before

\* assert_messages passing on a message logged twice after a clear.
C19_Witness ==
    /\ m_last.op = "assert_messages"
    /\ m_last.passed
    /\ messages = <<"a", "a">>
    /\ Len(calls) = 4

====
